---- MODULE Spec2Model ----
(***************************************************************************)
(* Certificate generator (src/app.py): serial allocation, the remote       *)
(* ledger certificates/records.csv, and the issuance flow of main().       *)
(*                                                                         *)
(* Text that the code parses (a serial) is a sequence of one-character     *)
(* strings; text that it only stores (name, email, date) is a string.      *)
(* A value read back from the CSV file is a cell: a text or pandas' NaN.   *)
(***************************************************************************)
EXTENDS Integers, Sequences, FiniteSets, Bags, TLC

(* ------------------------------ bounds ------------------------------ *)
NumSessions == 2
MaxSubmits == 2
MaxSubmitsSeq == 2
MaxSubmitsOne == 3
MaxRestarts == 1
MaxTicks == 1

FirstYear == 2025

Sessions == 1..NumSessions

(* ------------------------------- text ------------------------------- *)
Digits == <<"0", "1", "2", "3", "4", "5", "6", "7", "8", "9">>

IsDigit(c) == \E i \in 1..10 : Digits[i] = c

DigitVal(c) == (CHOOSE i \in 1..10 : Digits[i] = c) - 1

\* str(n) for n >= 0
RECURSIVE Str(_)
Str(n) == IF n < 10 THEN <<Digits[n + 1]>> ELSE Str(n \div 10) \o <<Digits[(n % 10) + 1]>>

\* s.zfill(w) for an unsigned s: zeros on the left up to width w, never cut
RECURSIVE zfill(_, _)
zfill(s, w) == IF Len(s) >= w THEN s ELSE zfill(<<"0">> \o s, w)

\* s.split('-')[0] in place of [-1]: what comes before the first '-'
LastSegment_first(s) ==
    LET dashes == {i \in 1..Len(s) : s[i] = "-"}
        first == IF dashes = {} THEN Len(s) + 1 ELSE CHOOSE i \in dashes : \A j \in dashes : i <= j
    IN  SubSeq(s, 1, first - 1)

\* s.split('-')[-1]: what follows the last '-', all of s when it has none
LastSegment(s) ==
    LET dashes == {i \in 1..Len(s) : s[i] = "-"}
        last == IF dashes = {} THEN 0 ELSE CHOOSE i \in dashes : \A j \in dashes : j <= i
    IN  SubSeq(s, last + 1, Len(s))

\* whether int(t) returns rather than raising ValueError. The alphabet of the
\* model has digits, letters and '-': no sign, blank or underscore.
IntParses(t) == Len(t) > 0 /\ \A i \in 1..Len(t) : IsDigit(t[i])

RECURSIVE IntOf(_)
IntOf(t) == IF Len(t) = 0 THEN 0 ELSE 10 * IntOf(SubSeq(t, 1, Len(t) - 1)) + DigitVal(t[Len(t)])

(* ------------------------------ cells ------------------------------- *)
NaN == [k |-> "nan"]

Text(t) == [k |-> "str", v |-> t]

IsText(c) == c.k = "str"

\* pandas' default na_values that the inputs of the model can spell
NAValues == {"", "NA"}

\* pd.read_csv of one cell of a text column
ReadCell(t) == IF t \in NAValues THEN NaN ELSE Text(t)

\* the serial column: an empty cell is NaN
ReadSerialCell(t) == IF t = <<>> THEN NaN ELSE Text(t)

\* DataFrame.to_csv of one cell: NaN is written as the empty cell
WriteCell(c) == IF IsText(c) THEN c.v ELSE ""

WriteSerialCell(c) == IF IsText(c) THEN c.v ELSE <<>>

ReadRow(r) ==
    [serial |-> ReadSerialCell(r.serial), name |-> ReadCell(r.name),
     email |-> ReadCell(r.email), date |-> ReadCell(r.date)]

WriteRow(c) ==
    [serial |-> WriteSerialCell(c.serial), name |-> WriteCell(c.name),
     email |-> WriteCell(c.email), date |-> WriteCell(c.date)]

\* df.to_dict('records') of pd.read_csv(content). Every column of the files
\* considered holds text that is no number, or nothing, so pandas infers no
\* numeric column and a cell is read as its text or as NaN.
read_csv(rows) == [i \in 1..Len(rows) |-> ReadRow(rows[i])]

\* pd.DataFrame(data).to_csv(index=False)
to_csv(data) == [i \in 1..Len(data) |-> WriteRow(data[i])]

(* ------------------------ generate_serial_number -------------------- *)
Max(a, b) == IF a >= b THEN a ELSE b

\* The loop of lines 119-124 from position i on, last_number being last.
\* A serial that is no str (NaN) has no split: AttributeError, not caught.
RECURSIVE HighestNumber(_, _, _)
HighestNumber(certs, i, last) ==
    IF i > Len(certs) THEN [ok |-> TRUE, n |-> last]
    ELSE IF ~IsText(certs[i].serial) THEN [ok |-> FALSE, n |-> last]
    ELSE LET seg == LastSegment(certs[i].serial.v)
         IN  IF IntParses(seg)
             THEN HighestNumber(certs, i + 1, Max(last, IntOf(seg)))
             ELSE HighestNumber(certs, i + 1, last)

FormatSerial(current_year, number) ==
    <<"P", "Y", "-">> \o Str(current_year) \o <<"-">> \o zfill(Str(number), 4)

\* the counter taken from the length of the ledger
generate_serial_number_by_length(all_certificates, current_year) ==
    [ok |-> TRUE, serial |-> FormatSerial(current_year, Len(all_certificates) + 1)]

\* max() of the numbers found, which raises on a ledger that has none
generate_serial_number_max_raises(all_certificates, current_year) ==
    LET h == HighestNumber(all_certificates, 1, 0)
    IN  IF h.ok /\ h.n > 0
        THEN [ok |-> TRUE, serial |-> FormatSerial(current_year, h.n + 1)]
        ELSE [ok |-> FALSE, serial |-> <<>>]

generate_serial_number(all_certificates, current_year) ==
    LET h == HighestNumber(all_certificates, 1, 0)
    IN  IF h.ok
        THEN [ok |-> TRUE, serial |-> FormatSerial(current_year, h.n + 1)]
        ELSE [ok |-> FALSE, serial |-> <<>>]

(* ------------------------------ inputs ------------------------------ *)
Names == {"Bob", "NA"}
Email == "bob@example.org"
Date == "January 01, 2025"

Row(serial, name) == [serial |-> serial, name |-> name, email |-> Email, date |-> Date]

S1 == FormatSerial(FirstYear, 1)
S2 == FormatSerial(FirstYear, 2)
S3 == FormatSerial(FirstYear, 3)
S9999 == FormatSerial(FirstYear, 9999)
SX == <<"P", "Y", "-", "x">>

NoFile == [exists |-> FALSE, rows |-> <<>>]
File(rows) == [exists |-> TRUE, rows |-> rows]

\* The remote file before the first session: absent, empty, written by earlier
\* runs, or edited by hand (a gap, a repeat, a suffix that is no number, an
\* empty serial cell, the last serial of four digits).
InitFiles ==
    { NoFile,
      File(<<>>),
      File(<<Row(S1, "Ann")>>),
      File(<<Row(S1, "Ann"), Row(S3, "Cy")>>),
      File(<<Row(S2, "Ann"), Row(S2, "Cy")>>),
      File(<<Row(SX, "Ann")>>),
      File(<<Row(S9999, "Ann")>>),
      File(<<Row(<<>>, "Ann")>>) }

(* ------------------------------- state ------------------------------ *)
VARIABLES
    remote,        \* certificates/records.csv in the GitHub repository
    year,          \* datetime.now().year
    github_cfg,    \* github_token and github_repo are both set
    smtp_cfg,      \* all(get_email_config().values())
    pc,            \* where each session's script is
    certificates,  \* st.session_state.certificates
    serial_number, \* main's serial_number
    full_name,     \* the form's Full Name
    sha,           \* existing_file.sha inside save_to_github
    ui,            \* what the run has shown: st.success / st.error / st.warning
    outbox,        \* the serials of the certificates the mail relay accepted
    loaded,        \* what load_existing_records returned to the session
    load_res,      \* how that load ended
    iss,           \* the session's current or last issuance: how it ended, the calls
                   \* of send_certificate, the write calls, what the save returned,
                   \* the session ledger as the issuance found it
    nsubmits, nrestarts

vars == <<remote, year, github_cfg, smtp_cfg, pc, certificates, serial_number,
          full_name, sha, ui, outbox, loaded, load_res, iss, nsubmits, nrestarts>>

env == <<year, github_cfg, smtp_cfg>>

NoSha == [some |-> FALSE, of |-> NoFile]

\* The blob sha GitHub returns names the content it was computed from.
Sha(file) == [some |-> TRUE, of |-> file]

NoIssuance == [outcome |-> "none", sends |-> 0, delivered |-> FALSE, writes |-> 0,
               save_ret |-> "none", before |-> <<>>]

Init ==
    /\ remote \in InitFiles
    /\ year = FirstYear
    /\ github_cfg \in BOOLEAN
    /\ smtp_cfg \in BOOLEAN
    /\ pc = [s \in Sessions |-> "start"]
    /\ certificates = [s \in Sessions |-> <<>>]
    /\ serial_number = [s \in Sessions |-> <<>>]
    /\ full_name = [s \in Sessions |-> ""]
    /\ sha = [s \in Sessions |-> NoSha]
    /\ ui = [s \in Sessions |-> <<>>]
    /\ outbox = EmptyBag
    /\ loaded = [s \in Sessions |-> <<>>]
    /\ load_res = [s \in Sessions |-> "none"]
    /\ iss = [s \in Sessions |-> NoIssuance]
    /\ nsubmits = 0
    /\ nrestarts = 0

(* ----------------------- load_existing_records ---------------------- *)
\* How a load can end, given the configuration and the remote file.
LoadOutcomes(cfg, file) ==
    IF ~cfg THEN {"no_config"}
    ELSE {"error"} \cup (IF file.exists THEN {"ok"} ELSE {"not_found"})

load_existing_records(file, how) ==
    IF how = "ok" THEN read_csv(file.rows) ELSE <<>>

\* main, lines 305-307: the first run of a session
Load(s) ==
    /\ pc[s] = "start"
    /\ \E how \in LoadOutcomes(github_cfg, remote) :
        /\ certificates' = [certificates EXCEPT ![s] = load_existing_records(remote, how)]
        /\ loaded' = [loaded EXCEPT ![s] = load_existing_records(remote, how)]
        /\ load_res' = [load_res EXCEPT ![s] = how]
    /\ pc' = [pc EXCEPT ![s] = "form"]
    /\ UNCHANGED <<remote, env, serial_number, full_name, sha, ui, outbox, iss,
                   nsubmits, nrestarts>>

(* ------------------------------- main ------------------------------- *)
Success(text) == [level |-> "success", text |-> text]
Error(text) == [level |-> "error", text |-> text]
Warning(text) == [level |-> "warning", text |-> text]

\* The except of lines 390-392: st.error(str(e)); the run ends at the form.
Abort(s, stage, message) ==
    /\ pc' = [pc EXCEPT ![s] = "form"]
    /\ ui' = [ui EXCEPT ![s] = Append(@, Error(message))]
    /\ iss' = [iss EXCEPT ![s].outcome = stage]

\* Lines 336-343: the form is submitted with every field filled in.
Submit(s) ==
    /\ pc[s] = "form"
    /\ \E name \in Names : full_name' = [full_name EXCEPT ![s] = name]
    /\ pc' = [pc EXCEPT ![s] = "allocate"]
    /\ ui' = [ui EXCEPT ![s] = <<>>]
    /\ iss' = [iss EXCEPT ![s] = [NoIssuance EXCEPT !.outcome = "running",
                                                    !.before = certificates[s]]]
    /\ nsubmits' = nsubmits + 1
    /\ UNCHANGED <<remote, env, certificates, serial_number, sha, outbox, loaded,
                   load_res, nrestarts>>

\* Lines 393-394: submitted with a field left empty.
SubmitIncomplete(s) ==
    /\ pc[s] = "form"
    /\ nsubmits' = nsubmits + 1
    /\ ui' = [ui EXCEPT ![s] = <<Warning("Please fill in all fields.")>>]
    /\ UNCHANGED <<remote, env, pc, certificates, serial_number, full_name, sha,
                   outbox, loaded, load_res, iss, nrestarts>>

\* the serial is reserved in the session ledger as it is allocated
Allocate_reserving(s) ==
    /\ pc[s] = "allocate"
    /\ LET g == generate_serial_number(certificates[s], year)
       IN  IF g.ok
           THEN /\ serial_number' = [serial_number EXCEPT ![s] = g.serial]
                /\ certificates' = [certificates EXCEPT ![s] =
                      Append(@, [serial |-> Text(g.serial), name |-> Text(full_name[s]),
                                 email |-> Text(Email), date |-> Text(Date)])]
                /\ pc' = [pc EXCEPT ![s] = "render"]
                /\ UNCHANGED <<ui, iss>>
           ELSE /\ Abort(s, "aborted_allocate", "'float' object has no attribute 'split'")
                /\ UNCHANGED <<serial_number, certificates>>
    /\ UNCHANGED <<remote, env, full_name, sha, outbox, loaded,
                   load_res, nsubmits, nrestarts>>

\* Line 346
Allocate(s) ==
    /\ pc[s] = "allocate"
    /\ LET g == generate_serial_number(certificates[s], year)
       IN  IF g.ok
           THEN /\ serial_number' = [serial_number EXCEPT ![s] = g.serial]
                /\ pc' = [pc EXCEPT ![s] = "render"]
                /\ UNCHANGED <<ui, iss>>
           ELSE /\ Abort(s, "aborted_allocate", "'float' object has no attribute 'split'")
                /\ UNCHANGED serial_number
    /\ UNCHANGED <<remote, env, certificates, full_name, sha, outbox, loaded,
                   load_res, nsubmits, nrestarts>>

\* How modify_psd can end: the template does not open, a font does not load
\* (OSError, re-raised), or the image is returned.
RenderOutcomes == {"ok", "no_template", "no_font"}

RenderMessage(how) ==
    IF how = "no_template" THEN "templates/certificate.psd: no such file"
    ELSE "cannot open resource"

\* Line 352: modify_psd
Render(s) ==
    /\ pc[s] = "render"
    /\ \E how \in RenderOutcomes :
        IF how = "ok"
        THEN pc' = [pc EXCEPT ![s] = "export"] /\ UNCHANGED <<ui, iss>>
        ELSE Abort(s, "aborted_render", RenderMessage(how))
    /\ UNCHANGED <<remote, env, certificates, serial_number, full_name, sha, outbox,
                   loaded, load_res, nsubmits, nrestarts>>

\* Line 353: convert_to_pdf
Export(s) ==
    /\ pc[s] = "export"
    /\ \E how \in {"ok", "error"} :
        IF how = "ok"
        THEN pc' = [pc EXCEPT ![s] = "send"] /\ UNCHANGED <<ui, iss>>
        ELSE Abort(s, "aborted_export", "cannot write PDF")
    /\ UNCHANGED <<remote, env, certificates, serial_number, full_name, sha, outbox,
                   loaded, load_res, nsubmits, nrestarts>>

\* How send_certificate can end. Without the configuration it raises before
\* it connects; with it, the relay accepts the message or an error is raised.
SendOutcomes(cfg) == IF ~cfg THEN {"no_config"} ELSE {"ok", "auth", "smtp"}

SendMessage(how) ==
    CASE how = "no_config" -> "Missing email configuration"
      [] how = "auth" -> "Email authentication failed. Please check: ..."
      [] OTHER -> "SMTP error"

\* send_certificate logs its error and returns; main goes on to store
Send_swallowing(s) ==
    /\ pc[s] = "send"
    /\ \E how \in SendOutcomes(smtp_cfg) :
        IF how = "ok"
        THEN /\ outbox' = outbox (+) SetToBag({serial_number[s]})
             /\ ui' = [ui EXCEPT ![s] = Append(@, Success("Email sent successfully!"))]
             /\ iss' = [iss EXCEPT ![s].sends = @ + 1, ![s].delivered = TRUE]
        ELSE /\ iss' = [iss EXCEPT ![s].sends = @ + 1]
             /\ UNCHANGED <<outbox, ui>>
    /\ pc' = [pc EXCEPT ![s] = "store"]
    /\ UNCHANGED <<remote, env, certificates, serial_number, full_name, sha, loaded,
                   load_res, nsubmits, nrestarts>>

\* Line 368: send_certificate
Send(s) ==
    /\ pc[s] = "send"
    /\ \E how \in SendOutcomes(smtp_cfg) :
        IF how = "ok"
        THEN /\ outbox' = outbox (+) SetToBag({serial_number[s]})
             /\ ui' = [ui EXCEPT ![s] = Append(@, Success("Email sent successfully!"))]
             /\ iss' = [iss EXCEPT ![s].sends = @ + 1, ![s].delivered = TRUE]
             /\ pc' = [pc EXCEPT ![s] = "store"]
        ELSE /\ pc' = [pc EXCEPT ![s] = "form"]
             /\ ui' = [ui EXCEPT ![s] = Append(@, Error(SendMessage(how)))]
             /\ iss' = [iss EXCEPT ![s].outcome = "aborted_send", ![s].sends = @ + 1]
             /\ UNCHANGED outbox
    /\ UNCHANGED <<remote, env, certificates, serial_number, full_name, sha, loaded,
                   load_res, nsubmits, nrestarts>>

certificate_data(s) ==
    [serial |-> Text(serial_number[s]), name |-> Text(full_name[s]),
     email |-> Text(Email), date |-> Text(Date)]

\* Lines 370-377
Store(s) ==
    /\ pc[s] = "store"
    /\ certificates' = [certificates EXCEPT ![s] = Append(@, certificate_data(s))]
    /\ pc' = [pc EXCEPT ![s] = "save_get"]
    /\ UNCHANGED <<remote, env, serial_number, full_name, sha, ui, outbox, loaded,
                   load_res, iss, nsubmits, nrestarts>>

(* --------------------------- save_to_github ------------------------- *)
\* save_to_github returns ret after n write calls; then main, lines 380-388:
\* the success message if it is True, the clean-up and the rerun either way.
SaveReturns(s, ret, n) ==
    /\ pc' = [pc EXCEPT ![s] = "form"]
    /\ ui' = [ui EXCEPT ![s] =
                IF ret THEN Append(@, Success("Certificate data saved to GitHub successfully!"))
                ELSE @]
    /\ iss' = [iss EXCEPT ![s].outcome = "done",
                          ![s].save_ret = IF ret THEN "true" ELSE "false",
                          ![s].writes = @ + n]

\* How lines 133-153 can end: the configuration is missing (ValueError), a call
\* raises something that is no GithubException, get_contents returns the file,
\* or get_contents raises a GithubException (404 when the file is absent, any
\* other API error when it is there).
GetOutcomes(cfg, file) ==
    IF ~cfg THEN {"no_config"}
    ELSE {"error", "github_exception"} \cup (IF file.exists THEN {"found"} ELSE {})

\* save_to_github, lines 132-153
SaveGet(s) ==
    /\ pc[s] = "save_get"
    /\ \E how \in GetOutcomes(github_cfg, remote) :
        IF how \in {"no_config", "error"}
        THEN SaveReturns(s, FALSE, 0) /\ UNCHANGED sha
        ELSE /\ sha' = [sha EXCEPT ![s] = IF how = "found" THEN Sha(remote) ELSE NoSha]
             /\ pc' = [pc EXCEPT ![s] = "save_put"]
             /\ UNCHANGED <<ui, iss>>
    /\ UNCHANGED <<remote, env, certificates, serial_number, full_name, outbox,
                   loaded, load_res, nsubmits, nrestarts>>

\* repo.update_file(path, message, content, sha) is accepted when the file is
\* there and sha is the sha of what it holds now.
UpdateAccepted(file, given) == file.exists /\ given = Sha(file)

\* repo.create_file(path, message, content) is accepted when there is no file.
CreateAccepted(file) == ~file.exists

\* How a write call can end: accepted, refused or failed with a
\* GithubException, or failed with another exception.
PutOutcomes(accepted) ==
    {"github_exception", "error"} \cup (IF accepted THEN {"ok"} ELSE {})

\* the save appends the new record to the rows the file holds
SavePut_merging(s) ==
    /\ pc[s] = "save_put"
    /\ LET data == certificates[s]
           content == File(remote.rows \o <<WriteRow(data[Len(data)])>>)
       IN  \E how \in PutOutcomes(IF sha[s].some THEN UpdateAccepted(remote, sha[s])
                                   ELSE CreateAccepted(remote)) :
             IF how = "ok"
             THEN remote' = content /\ SaveReturns(s, TRUE, 1)
             ELSE UNCHANGED remote /\ SaveReturns(s, FALSE, 1)
    /\ UNCHANGED <<env, certificates, serial_number, full_name, sha, outbox, loaded,
                   load_res, nsubmits, nrestarts>>

\* save_to_github, lines 154-174
SavePut(s) ==
    /\ pc[s] = "save_put"
    /\ LET content == File(to_csv(certificates[s]))
       IN  IF sha[s].some
           THEN \E how \in PutOutcomes(UpdateAccepted(remote, sha[s])) :
                  CASE how = "ok" -> remote' = content /\ SaveReturns(s, TRUE, 1)
                    [] how = "error" -> UNCHANGED remote /\ SaveReturns(s, FALSE, 1)
                    [] OTHER ->
                        \* except github.GithubException: create_file
                        \E again \in PutOutcomes(CreateAccepted(remote)) :
                          IF again = "ok"
                          THEN remote' = content /\ SaveReturns(s, TRUE, 2)
                          ELSE UNCHANGED remote /\ SaveReturns(s, FALSE, 2)
           ELSE \E how \in PutOutcomes(CreateAccepted(remote)) :
                  IF how = "ok"
                  THEN remote' = content /\ SaveReturns(s, TRUE, 1)
                  ELSE UNCHANGED remote /\ SaveReturns(s, FALSE, 1)
    /\ UNCHANGED <<env, certificates, serial_number, full_name, sha, outbox, loaded,
                   load_res, nsubmits, nrestarts>>

(* ---------------------------- environment --------------------------- *)
\* The browser session ends and a new one begins: st.session_state is empty.
Restart(s) ==
    /\ pc[s] = "form"
    /\ nrestarts' = nrestarts + 1
    /\ pc' = [pc EXCEPT ![s] = "start"]
    /\ certificates' = [certificates EXCEPT ![s] = <<>>]
    /\ serial_number' = [serial_number EXCEPT ![s] = <<>>]
    /\ full_name' = [full_name EXCEPT ![s] = ""]
    /\ sha' = [sha EXCEPT ![s] = NoSha]
    /\ ui' = [ui EXCEPT ![s] = <<>>]
    /\ loaded' = [loaded EXCEPT ![s] = <<>>]
    /\ load_res' = [load_res EXCEPT ![s] = "none"]
    /\ iss' = [iss EXCEPT ![s] = NoIssuance]
    /\ UNCHANGED <<remote, env, outbox, nsubmits>>

\* New Year.
Tick ==
    /\ year' = year + 1
    /\ UNCHANGED <<remote, github_cfg, smtp_cfg, pc, certificates, serial_number,
                   full_name, sha, ui, outbox, loaded, load_res, iss, nsubmits, nrestarts>>

\* Sessions that share the remote file, their steps interleaved.
Next ==
    \/ \E s \in Sessions : Load(s)
    \/ \E s \in Sessions : nsubmits < MaxSubmits /\ Submit(s)
    \/ \E s \in Sessions : nsubmits < MaxSubmits /\ SubmitIncomplete(s)
    \/ \E s \in Sessions : Allocate(s)
    \/ \E s \in Sessions : Render(s)
    \/ \E s \in Sessions : Export(s)
    \/ \E s \in Sessions : Send(s)
    \/ \E s \in Sessions : Store(s)
    \/ \E s \in Sessions : SaveGet(s)
    \/ \E s \in Sessions : SavePut(s)
    \/ \E s \in Sessions : nrestarts < MaxRestarts /\ Restart(s)
    \/ year < FirstYear + MaxTicks /\ Tick

Spec == Init /\ [][Next]_vars

\* One session at a time: a session runs alone, and the next one starts
\* when it has ended.
NextSeq ==
    \/ Load(1)
    \/ nsubmits < MaxSubmitsSeq /\ Submit(1)
    \/ nsubmits < MaxSubmitsSeq /\ SubmitIncomplete(1)
    \/ Allocate(1)
    \/ Render(1)
    \/ Export(1)
    \/ Send(1)
    \/ Store(1)
    \/ SaveGet(1)
    \/ SavePut(1)
    \/ nrestarts < MaxRestarts /\ Restart(1)
    \/ year < FirstYear + MaxTicks /\ Tick

SpecSeq == Init /\ [][NextSeq]_vars

\* Sessions that share the remote file of a configured deployment, each
\* loading once and issuing; the file holds one record at the start.
InitConc ==
    /\ Init
    /\ github_cfg /\ smtp_cfg
    /\ remote = File(<<Row(S1, "Ann")>>)

NextConc ==
    \/ \E s \in Sessions : Load(s)
    \/ \E s \in Sessions : nsubmits < MaxSubmits /\ Submit(s)
    \/ \E s \in Sessions : Allocate(s)
    \/ \E s \in Sessions : Render(s)
    \/ \E s \in Sessions : Export(s)
    \/ \E s \in Sessions : Send(s)
    \/ \E s \in Sessions : Store(s)
    \/ \E s \in Sessions : SaveGet(s)
    \/ \E s \in Sessions : SavePut(s)

SpecConc == InitConc /\ [][NextConc]_vars

\* One session from its load on, alone on the remote file: every submission
\* is an issuance, and the session does not end.
NextOne ==
    \/ Load(1)
    \/ nsubmits < MaxSubmitsOne /\ Submit(1)
    \/ Allocate(1)
    \/ Render(1)
    \/ Export(1)
    \/ Send(1)
    \/ Store(1)
    \/ SaveGet(1)
    \/ SavePut(1)
    \/ year < FirstYear + MaxTicks /\ Tick

SpecOne == Init /\ [][NextOne]_vars

(* ------------------------------ claims ------------------------------ *)
Range(f) == {f[i] : i \in DOMAIN f}

StepOf(s) == pc'[s] # pc[s]

\* C1: no two certificates that were sent carry the same serial number.
C1_SentSerialsUnique == \A e \in BagToSet(outbox) : CopiesIn(e, outbox) = 1

DistinctSerials(certs) ==
    \A i, j \in 1..Len(certs) : i # j => certs[i].serial # certs[j].serial

DistinctRowSerials(rows) ==
    \A i, j \in 1..Len(rows) : i # j => rows[i].serial # rows[j].serial

\* C2: in a session whose loaded ledger has pairwise distinct serials, the
\* session ledger has pairwise distinct serials after every step, and so has
\* the remote file after every save of the session that returns True.
C2_SerialsDistinct ==
    [][\A s \in Sessions :
         DistinctSerials(loaded'[s]) =>
           /\ DistinctSerials(certificates'[s])
           /\ (pc[s] = "save_put" /\ iss'[s].save_ret = "true"
                 => DistinctRowSerials(remote'.rows))]_vars

C2_Witness ==
    \E s \in Sessions :
        /\ Len(loaded[s]) = 2 /\ DistinctSerials(loaded[s])
        /\ Len(certificates[s]) = 4
        /\ iss[s].save_ret = "true" /\ remote.rows = to_csv(certificates[s])

\* The numbers the serials of a ledger end in.
NumericSuffixes(certs) ==
    {IntOf(LastSegment(c.serial.v)) :
        c \in {d \in Range(certs) : IsText(d.serial) /\ IntParses(LastSegment(d.serial.v))}}

Highest(S) == IF S = {} THEN 0 ELSE CHOOSE m \in S : \A n \in S : n <= m

\* t reads PY-<y>-<n>, y in four digits, n in four digits or as many as it has
HasForm(t, y, n) ==
    /\ Len(t) >= 12
    /\ SubSeq(t, 1, 3) = <<"P", "Y", "-">>
    /\ IntParses(SubSeq(t, 4, 7)) /\ IntOf(SubSeq(t, 4, 7)) = y
    /\ t[8] = "-"
    /\ LET suffix == SubSeq(t, 9, Len(t))
       IN  /\ IntParses(suffix) /\ IntOf(suffix) = n
           /\ Len(suffix) > 4 => suffix[1] # "0"

AllSerialsText(certs) == \A c \in Range(certs) : IsText(c.serial)

C4_SavePreservesRows ==
    [][\A i \in 1..Len(remote.rows) : remote.rows[i] \in Range(remote'.rows)]_vars

\* C5: when a save returns True in the issuance that follows the load of L,
\* a load of the file it wrote returns len(L) + 1 records, the record just
\* appended among them.
C5_AppendVisibleToLoad ==
    [][\A s \in Sessions :
         pc[s] = "save_put" /\ iss'[s].save_ret = "true" /\ iss[s].before = loaded[s]
           => LET again == load_existing_records(remote', "ok")
              IN  /\ Len(again) = Len(loaded[s]) + 1
                  /\ certificate_data(s) \in Range(again)]_vars

\* C6: an issuance that sent the certificate and whose save returned False
\* has shown a warning.
C6_FailedSaveWarns ==
    \A s \in Sessions :
        iss[s].outcome = "done" /\ iss[s].delivered /\ iss[s].save_ret = "false"
          => \E i \in 1..Len(ui[s]) : ui[s][i].level = "warning"

PreSend == {"allocate", "render", "export"}

\* C7: a step of an issuance before SEND leaves the session ledger, the remote
\* file and the outbox as they were, and an issuance that ends there has sent
\* nothing, written nothing and left the session ledger as it found it.
C7_AbortBeforeSendChangesNothing ==
    [][\A s \in Sessions :
         pc[s] \in PreSend /\ StepOf(s)
           => /\ remote' = remote
              /\ outbox' = outbox
              /\ certificates'[s] = certificates[s]
              /\ pc'[s] \in PreSend \cup {"send", "form"}
              /\ pc'[s] = "form"
                   => /\ iss'[s].outcome \in {"aborted_allocate", "aborted_render", "aborted_export"}
                      /\ iss'[s].sends = 0 /\ ~iss'[s].delivered /\ iss'[s].writes = 0
                      /\ certificates'[s] = iss'[s].before]_vars

C7_Witness ==
    \E s \in Sessions :
        /\ iss[s].outcome = "aborted_export"
        /\ pc[s] = "form"
        /\ Len(certificates[s]) > 0
        /\ remote.exists

\* ALLOCATE_SERIAL -> RENDER -> EXPORT -> SEND -> COMMIT_LEDGER (the append,
\* then the two calls of the save); from any stage the issuance may end.
StageOrder(a, b) ==
    \/ <<a, b>> \in {<<"form", "allocate">>, <<"allocate", "render">>,
                     <<"render", "export">>, <<"export", "send">>, <<"send", "store">>,
                     <<"store", "save_get">>, <<"save_get", "save_put">>}
    \/ a # "form" /\ b = "form"

InIssuance(s) == pc[s] # "start" /\ pc'[s] # "start"

\* C8 as stated: a record that a step of an issuance adds to the session
\* ledger or to the remote file carries the serial of that issuance, whose
\* send has returned; and the stages follow their order.
C8_RecordsOnlyOfThisIssuance ==
    [][\A s \in Sessions :
         StepOf(s) /\ InIssuance(s)
           => /\ \A r \in Range(certificates'[s]) \ Range(certificates[s]) :
                    iss[s].delivered /\ r.serial = Text(serial_number[s])
              /\ \A r \in Range(remote'.rows) \ Range(remote.rows) :
                    iss[s].delivered /\ r.serial = serial_number[s]
              /\ StageOrder(pc[s], pc'[s])]_vars

\* C8 as amended: the session ledger changes only by the append of the
\* issuance's record, after its send has returned; the remote file changes
\* only in the save of such an issuance, which writes the whole session
\* ledger: the records loaded when the session began, then the records the
\* session appended, each after its own send, in this issuance or an earlier
\* one; and the stages follow their order.
C8_RecordsOnlyAfterSend ==
    [][\A s \in Sessions :
         StepOf(s) /\ InIssuance(s)
           => /\ StageOrder(pc[s], pc'[s])
              /\ certificates'[s] # certificates[s]
                   => /\ pc[s] = "store"
                      /\ iss[s].delivered /\ iss[s].sends = 1
                      /\ BagIn(serial_number[s], outbox)
                      /\ certificates'[s] = Append(certificates[s], certificate_data(s))
              /\ remote' # remote
                   => /\ pc[s] = "save_put"
                      /\ iss[s].delivered
                      /\ remote'.rows = to_csv(certificates[s])
                      /\ SubSeq(certificates[s], 1, Len(loaded[s])) = loaded[s]
                      /\ \A i \in (Len(loaded[s]) + 1)..Len(certificates[s]) :
                            /\ IsText(certificates[s][i].serial)
                            /\ BagIn(certificates[s][i].serial.v, outbox)
                      /\ certificates[s][Len(certificates[s])] = certificate_data(s)]_vars

C8_Witness ==
    \E s \in Sessions :
        /\ iss[s].save_ret = "true"
        /\ Len(certificates[s]) = Len(loaded[s]) + 2
        /\ Len(loaded[s]) > 0
        /\ remote.rows = to_csv(certificates[s])

\* C9: a save that returns True has replaced the remote file by the rows of
\* the session ledger alone, whatever the file held and whether or not it
\* changed after the session loaded it.
C9_SaveOverwritesWithSnapshot ==
    [][\A s \in Sessions :
         pc[s] = "save_put" /\ StepOf(s) /\ iss'[s].save_ret = "true"
           => remote' = File(to_csv(certificates[s]))]_vars

\* Two sessions loaded the same ledger, sent the same serial to two
\* recipients, both saves returned True, and the file lacks one of the records.
C9_Witness ==
    \E s, t \in Sessions :
        /\ s # t
        /\ load_res[s] = "ok" /\ load_res[t] = "ok" /\ loaded[s] = loaded[t]
        /\ pc[s] = "form" /\ pc[t] = "form"
        /\ iss[s].save_ret = "true" /\ iss[t].save_ret = "true"
        /\ serial_number[s] = serial_number[t]
        /\ CopiesIn(serial_number[s], outbox) = 2
        /\ full_name[s] # full_name[t]
        /\ WriteRow(certificate_data(s)) \notin Range(remote.rows)
        /\ WriteRow(certificate_data(t)) \in Range(remote.rows)

\* C10: a load that fails leaves the session with an empty ledger; the
\* allocation of every issuance of that session returns a serial of the form
\* PY-<year>-<number>, and the issuance goes on to render.
C10_LoadFailureDoesNotAbort ==
    [][\A s \in Sessions :
         /\ pc[s] = "start" /\ StepOf(s) /\ load_res'[s] # "ok"
              => certificates'[s] = <<>> /\ pc'[s] = "form"
         /\ pc[s] = "allocate" /\ StepOf(s) /\ load_res[s] \in {"error", "not_found", "no_config"}
              => /\ pc'[s] = "render"
                 /\ \E n \in 1..(Len(certificates[s]) + 1) :
                       HasForm(serial_number'[s], year, n)]_vars

C10_Witness ==
    \E s \in Sessions :
        /\ load_res[s] = "error"
        /\ remote.exists /\ Len(remote.rows) > 0
        /\ iss[s].delivered
        /\ HasForm(serial_number[s], year, 1)


ShowsError(s) == \E i \in 1..Len(ui[s]) : ui[s][i].level = "error"

\* A step of save_to_github that calls the GitHub API: get_contents when the
\* configuration is there, update_file or create_file.
RemoteCall(s) == (pc[s] = "save_get" /\ github_cfg) \/ pc[s] = "save_put"

\* C11: with the SMTP configuration or the GitHub configuration missing, no
\* step of an issuance sends an email or calls the remote ledger, and the
\* issuance ends with an error shown to the user.
C11_ConfigErrorIsFatal ==
    [][\A s \in Sessions :
         (~smtp_cfg \/ ~github_cfg) /\ StepOf(s) /\ InIssuance(s)
           => /\ outbox' = outbox
              /\ ~RemoteCall(s)
              /\ (pc[s] # "form" /\ pc'[s] = "form" => ShowsError(s)')]_vars

\* The number a serial ends in.
SuffixOf(t) == IntOf(LastSegment(t))

\* C12 as stated: an issuance that ends for a missing template or font ends
\* before generate_serial_number is called.
C12_ResourceErrorBeforeAllocation ==
    [][\A s \in Sessions :
         StepOf(s) /\ iss'[s].outcome = "aborted_render" /\ iss[s].outcome = "running"
           => pc[s] = "allocate"]_vars

\* C12 as amended: a missing template or font ends the issuance in modify_psd,
\* after generate_serial_number has returned, and the serial it returned is
\* not consumed: the error is shown, nothing is sent or written, the session
\* ledger is as the issuance found it, and the next allocation returns the
\* same number.
C12_ResourceErrorConsumesNoSerial ==
    [][\A s \in Sessions :
         pc[s] = "render" /\ StepOf(s) /\ pc'[s] # "export"
           => /\ pc'[s] = "form"
              /\ iss'[s].outcome = "aborted_render"
              /\ ShowsError(s)'
              /\ iss'[s].sends = 0 /\ ~iss'[s].delivered /\ iss'[s].writes = 0
              /\ outbox' = outbox /\ remote' = remote
              /\ certificates'[s] = iss'[s].before
              /\ LET g == generate_serial_number(certificates'[s], year')
                 IN  /\ g.ok
                     /\ g.serial = FormatSerial(year', SuffixOf(serial_number[s]))]_vars

C12_Witness ==
    \E s \in Sessions :
        /\ pc[s] = "form" /\ iss[s].outcome = "aborted_render"
        /\ ShowsError(s)
        /\ Len(certificates[s]) = Len(loaded[s]) + 1
        /\ generate_serial_number(certificates[s], year).serial = serial_number[s]
        /\ SuffixOf(serial_number[s]) = 2

\* C13: in a session that began with an empty ledger, when k issuances have
\* succeeded (their certificates sent) and the others ended at or before
\* send, the session ledger holds k records whose serials end in 1..k in
\* order, and the allocation returns PY-<year>-<k+1> in four digits, k+1
\* being the length of the session ledger plus 1.
C13_CounterIsSuccessesPlusOne ==
    [][\A s \in Sessions :
         loaded[s] = <<>> /\ pc[s] = "allocate" /\ StepOf(s)
           => LET k == BagCardinality(outbox)
              IN  /\ Len(certificates[s]) = k
                  /\ \A i \in 1..k : /\ IsText(certificates[s][i].serial)
                                     /\ IntParses(LastSegment(certificates[s][i].serial.v))
                                     /\ SuffixOf(certificates[s][i].serial.v) = i
                  /\ pc'[s] = "render"
                  /\ HasForm(serial_number'[s], year, k + 1)
                  /\ Len(LastSegment(serial_number'[s])) = 4]_vars

\* The third issuance of a session that began empty: one of the two before it
\* failed, one succeeded, and the serial allocated ends in 0002.
C13_Witness ==
    \E s \in Sessions :
        /\ loaded[s] = <<>> /\ pc[s] = "render"
        /\ nsubmits = 3
        /\ BagCardinality(outbox) = 1 /\ Len(certificates[s]) = 1
        /\ LastSegment(serial_number[s]) = <<"0", "0", "0", "2">>

\* C14: the record an issuance appends to the session ledger ends in a number
\* greater than every number a serial already in the session ledger ends in,
\* so the numbers of the records a session has appended increase strictly.
C14_AppendedSuffixIsGreater ==
    [][\A s \in Sessions :
         pc[s] = "store" /\ StepOf(s)
           => LET n == Len(certificates'[s])
                  new == certificates'[s][n]
              IN  /\ certificates'[s] = Append(certificates[s], new)
                  /\ IsText(new.serial) /\ IntParses(LastSegment(new.serial.v))
                  /\ \A m \in NumericSuffixes(certificates[s]) : m < SuffixOf(new.serial.v)
                  /\ \A i, j \in (Len(loaded[s]) + 1)..n :
                        i < j => SuffixOf(certificates'[s][i].serial.v)
                                   < SuffixOf(certificates'[s][j].serial.v)]_vars

\* A session loaded the serials 0001 and 0003 and has appended 0004 and 0005.
C14_Witness ==
    \E s \in Sessions :
        /\ Len(loaded[s]) = 2 /\ NumericSuffixes(loaded[s]) = {1, 3}
        /\ Len(certificates[s]) = 4
        /\ SuffixOf(certificates[s][3].serial.v) = 4
        /\ SuffixOf(certificates[s][4].serial.v) = 5

\* C15: an issuance calls send_certificate at most once and makes at most one
\* write call (update_file or create_file) on the remote file.
C15_NoRetry ==
    \A s \in Sessions : iss[s].sends <= 1 /\ iss[s].writes <= 1

\* C16: the call of generate_serial_number leaves every session ledger and
\* the remote file as they were, whether it returns or raises; the serial it
\* returns is the serial of no record of the session ledger.
C16_AllocationLeavesLedger ==
    [][\A s \in Sessions :
         pc[s] = "allocate" /\ StepOf(s)
           => /\ certificates' = certificates
              /\ remote' = remote
              /\ pc'[s] = "render"
                   => \A c \in Range(certificates'[s]) : c.serial # Text(serial_number'[s])]_vars

\* A serial is allocated and no record of the session ledger or row of the
\* remote file carries it.
C16_Witness ==
    \E s \in Sessions :
        /\ pc[s] = "render"
        /\ Len(certificates[s]) = 2
        /\ HasForm(serial_number[s], year, 3)
        /\ \A c \in Range(certificates[s]) : c.serial # Text(serial_number[s])
        /\ remote.exists
        /\ \A r \in Range(remote.rows) : r.serial # serial_number[s]

\* The records a load of the remote file would return.
RemoteLedger == load_existing_records(remote, "ok")

IsPrefix(a, b) == Len(a) <= Len(b) /\ SubSeq(b, 1, Len(a)) = a

\* C17: in a session whose load succeeded, alone on the remote file, the
\* remote ledger is a prefix of the session ledger in every state, and equals
\* it when the last save has returned True.
C17_RemoteIsPrefixOfSession ==
    \A s \in Sessions :
        load_res[s] = "ok"
          => /\ IsPrefix(RemoteLedger, certificates[s])
             /\ (pc[s] = "form" /\ iss[s].save_ret = "true"
                   => RemoteLedger = certificates[s])

====
